---- MODULE Spec2Model ----
(***************************************************************************)
(* Uncertainty sampling scores of uncertainty_sampling_numpy.py.           *)
(*                                                                         *)
(* The state is what a caller of the library holds: one numpy array of     *)
(* probabilities (prob_dist) or one array of raw scores (prediction), and  *)
(* the outcome of the latest call (ret); orig and usage record the array   *)
(* as first built and how it has been used.  Each action is one call of one *)
(* function of the library on the caller's array, including the in-place   *)
(* sort that margin_confidence and ratio_confidence perform on it.         *)
(*                                                                         *)
(* Numbers are exact.  A real number is a pair <<n, d>>: the fraction n/d  *)
(* in lowest terms with d > 0; d = 0 stands for what a float64 division by *)
(* zero leaves: <<1,0>> = +inf, <<-1,0>> = -inf, <<0,0>> = NaN.  IEEE-754   *)
(* rounding is not part of the model.                                      *)
(*                                                                         *)
(* log2 of a fraction is irrational in general, so the entropy pipeline is *)
(* carried symbolically: a "log number" is a fraction R standing for the   *)
(* real  log2(R) / Denom.  Adding log numbers multiplies their fractions,  *)
(* negating inverts the fraction, and p * log2(p) for p = a/b on the grid  *)
(* (b divides Denom) is the log number (a/b)^(a*Denom/b).                  *)
(***************************************************************************)
EXTENDS Integers, Sequences, FiniteSets

VARIABLES prob_dist, prediction, orig, usage, ret

vars == <<prob_dist, prediction, orig, usage, ret>>

\* Bounds of the model.
MaxLen == 4
Denom == 6
MaxLogitLen == 3
MaxLogit == 2

----------------------------------------------------------------------------
\* Exact arithmetic standing for numpy's float64 arithmetic.

Abs(x) == IF x < 0 THEN -x ELSE x

RECURSIVE GCD(_, _)
GCD(a, b) == IF b = 0 THEN a ELSE GCD(b, a % b)

Sign(x) == IF x > 0 THEN 1 ELSE IF x < 0 THEN -1 ELSE 0

Rat(n, d) ==
    IF d = 0 THEN <<Sign(n), 0>>
    ELSE LET g == GCD(Abs(n), Abs(d))
             s == IF d < 0 THEN -1 ELSE 1
         IN  <<(s * n) \div g, (s * d) \div g>>

NaN == <<0, 0>>
Zero == <<0, 1>>
One == <<1, 1>>

IsNaN(x) == x = NaN
IsFinite(x) == x[2] # 0

RAdd(x, y) == Rat(x[1] * y[2] + y[1] * x[2], x[2] * y[2])
RSub(x, y) == Rat(x[1] * y[2] - y[1] * x[2], x[2] * y[2])
RMul(x, y) == Rat(x[1] * y[1], x[2] * y[2])
\* float64 division: x/0 is +-inf and 0/0 is NaN, with a warning and no exception
RDiv(x, y) == Rat(x[1] * y[2], x[2] * y[1])
RLt(x, y) == x[1] * y[2] < y[1] * x[2]
RLe(x, y) == x[1] * y[2] <= y[1] * x[2]

RECURSIVE IntPow(_, _)
IntPow(b, e) == IF e = 0 THEN 1 ELSE b * IntPow(b, e - 1)

\* base ** x for an integer exponent x of either sign
RPow(b, x) ==
    IF x >= 0 THEN Rat(IntPow(b[1], x), IntPow(b[2], x))
    ELSE Rat(IntPow(b[2], -x), IntPow(b[1], -x))

RECURSIVE RSum(_)
RSum(s) == IF s = <<>> THEN Zero ELSE RAdd(RSum(SubSeq(s, 1, Len(s) - 1)), s[Len(s)])

----------------------------------------------------------------------------
\* Array helpers.

Reverse(s) == [i \in 1..Len(s) |-> s[Len(s) + 1 - i]]

RECURSIVE Insert(_, _)
Insert(x, s) ==
    IF s = <<>> THEN <<x>>
    ELSE IF RLe(x, Head(s)) THEN <<x>> \o s
    ELSE <<Head(s)>> \o Insert(x, Tail(s))

\* ndarray.sort(): ascending, in place
RECURSIVE SortAsc(_)
SortAsc(s) == IF s = <<>> THEN <<>> ELSE Insert(Head(s), SortAsc(Tail(s)))

\* A mutant of sort_desc: the sort is applied to the array itself (ascending).
sort_desc_ascending(p) == SortAsc(p)

\* A mutant of sort_desc: the sort is lost (it sorts a temporary copy).
sort_desc_none(p) == p

\* prob_dist[::-1].sort(): the reversed view is sorted ascending in place, which
\* leaves the array itself in descending order.
sort_desc(p) == Reverse(SortAsc(Reverse(p)))

\* np.nanmax: the largest entry that is not NaN
nanmax(p) ==
    LET real == {i \in 1..Len(p) : ~IsNaN(p[i])}
    IN  IF real = {} THEN NaN
        ELSE p[CHOOSE i \in real : \A j \in real : RLe(p[j], p[i])]

----------------------------------------------------------------------------
\* Failures.  "" is normal completion; otherwise the class of the exception.

\* p[i] for a 0-based index i: IndexError when i is not below the length
item_exc(p, i) == IF i >= Len(p) THEN "IndexError" ELSE ""

\* a / b on Python floats: ZeroDivisionError when b is 0.0
float_div_exc(b) == IF b = 0 THEN "ZeroDivisionError" ELSE ""

\* np.nanmax of a zero-size array: ValueError (the reduction has no identity)
nanmax_exc(p) == IF Len(p) = 0 THEN "ValueError" ELSE ""

\* A mutant of least_confidence_exc: every short array fails at an index.
least_confidence_exc_index(p, sorted) == IF Len(p) < 2 THEN "IndexError" ELSE ""

\* The first failure of least_confidence, in the order its statements run.
least_confidence_exc(p, sorted) ==
    LET first == IF sorted THEN item_exc(p, 0) ELSE nanmax_exc(p)
    IN  IF first # "" THEN first ELSE float_div_exc(Len(p) - 1)

\* The first failure of reading p[0] and p[1].
two_item_exc(p) == IF item_exc(p, 0) # "" THEN item_exc(p, 0) ELSE item_exc(p, 1)

----------------------------------------------------------------------------
\* softmax

exps(pred, base) == [i \in 1..Len(pred) |-> RPow(base, pred[i])]

\* A mutant of softmax_dist: the exponentials are divided by the first of them,
\* not by their sum.
softmax_dist_first(pred, base) ==
    LET e == exps(pred, base)
    IN  [i \in 1..Len(pred) |-> RDiv(e[i], IF e = <<>> THEN Zero ELSE e[1])]

softmax_dist(pred, base) ==
    LET e == exps(pred, base)
        sum_exps == RSum(e)
    IN  [i \in 1..Len(pred) |-> RDiv(e[i], sum_exps)]

----------------------------------------------------------------------------
\* The three scores computed from the head of the array.

\* A mutant of margin_conf: the difference is returned, not its complement.
margin_conf_difference(p) == RSub(p[1], p[2])

margin_conf(p) ==
    LET difference == RSub(p[1], p[2])
    IN  RSub(One, difference)

\* A mutant of ratio_conf: the ratio is inverted.
ratio_conf_inverted(p) == RDiv(p[1], p[2])

ratio_conf(p) == RDiv(p[2], p[1])

\* A mutant of normalized_least_conf: the factor is n / n.
normalized_least_conf_unscaled(simple_least_conf, num_labels) ==
    RMul(RSub(One, simple_least_conf), RDiv(<<num_labels, 1>>, <<num_labels, 1>>))

normalized_least_conf(simple_least_conf, num_labels) ==
    RMul(RSub(One, simple_least_conf),
         RDiv(<<num_labels, 1>>, <<num_labels - 1, 1>>))

\* A mutant of most_confident: a pre-sorted array is read at its last index.
most_confident_last(p, sorted) == IF sorted THEN p[Len(p)] ELSE nanmax(p)

most_confident(p, sorted) == IF sorted THEN p[1] ELSE nanmax(p)

----------------------------------------------------------------------------
\* entropy_score, on log numbers (a fraction R stands for log2(R) / Denom).

\* p * log2(p): 0 * -inf is NaN; otherwise (a/b) * log2(a/b) is the log number
\* (a/b)^(a * Denom / b)
LogTimes(p) ==
    IF p[1] = 0 THEN NaN
    ELSE LET e == (p[1] * Denom) \div p[2]
         IN  <<IntPow(p[1], e), IntPow(p[2], e)>>

\* x + y on log numbers; NaN propagates
LogAdd(x, y) == IF IsNaN(x) \/ IsNaN(y) THEN NaN ELSE RMul(x, y)

\* np.sum, left to right from 0.0
RECURSIVE LogSum(_)
LogSum(s) ==
    IF s = <<>> THEN One ELSE LogAdd(LogSum(SubSeq(s, 1, Len(s) - 1)), s[Len(s)])

\* 0 - x on log numbers
LogNeg(x) == IF IsNaN(x) THEN NaN ELSE <<x[2], x[1]>>

log_probs(p) == [i \in 1..Len(p) |-> LogTimes(p[i])]

raw_entropy(p) == LogNeg(LogSum(log_probs(p)))

\* raw / np.log2(size).  The quotient of log2(R)/Denom by log2(n) is the real
\* log of R to the base n^Denom, kept as the pair (arg, base).  log2(0) = -inf
\* makes the quotient of a finite number (-)0; log2(1) = 0 makes it a float64
\* division by zero.
LogQuot(raw, n) ==
    IF IsNaN(raw) THEN [kind |-> "nan", arg |-> NaN, base |-> 0]
    ELSE IF n = 0 THEN [kind |-> "zero", arg |-> One, base |-> 0]
    ELSE IF n = 1 THEN
        IF raw = One THEN [kind |-> "nan", arg |-> NaN, base |-> 0]
        ELSE IF RLt(One, raw) THEN [kind |-> "inf", arg |-> raw, base |-> 0]
        ELSE [kind |-> "ninf", arg |-> raw, base |-> 0]
    ELSE [kind |-> "log", arg |-> raw, base |-> IntPow(n, Denom)]

normalized_entropy(p) == LogQuot(raw_entropy(p), Len(p))

NoEnt == [kind |-> "none", arg |-> NaN, base |-> 0]

----------------------------------------------------------------------------
\* Inputs.

RECURSIVE SumTo(_, _)
SumTo(f, n) == IF n = 0 THEN 0 ELSE f[n] + SumTo(f, n - 1)

\* The arrays of length 0..MaxLen with entries k/Denom that sum to 1.
Dists ==
    {<<>>} \cup
    UNION {{[i \in 1..n |-> Rat(f[i], Denom)] :
              f \in {g \in [1..n -> 0..Denom] : SumTo(g, n) = Denom}} :
           n \in 1..MaxLen}

Logits == UNION {[1..n -> (-MaxLogit)..MaxLogit] : n \in 0..MaxLogitLen}

Bases == {<<1, 2>>, <<1, 1>>, <<3, 2>>, <<2, 1>>, <<3, 1>>}

NoCall ==
    [fn |-> "none", sorted |-> FALSE, arg |-> <<>>, base |-> One, exc |-> "",
     val |-> NaN, ent |-> NoEnt, dist |-> <<>>]

Init ==
    /\ \/ prob_dist \in Dists /\ prediction = <<>>
       \/ prob_dist = <<>> /\ prediction \in Logits
    /\ orig = prob_dist
    /\ usage = "fresh"
    /\ ret = NoCall

----------------------------------------------------------------------------
\* Calls.  ret.arg is the array as it was handed to the function; prob_dist'
\* is the caller's array when the call has ended (returned or raised).

\* How the array has been used once a call with the flag `sorted` has ended,
\* `sorts` telling whether the function sorts when the flag is False:
\* "fresh" no call has sorted it nor relied on its order, "sorted" a call has
\* sorted it before any call relied on its order, "unsorted_use" a call with
\* sorted=True came before any sorting call.
Used(sorted, sorts) ==
    IF usage = "unsorted_use" THEN "unsorted_use"
    ELSE IF sorted THEN (IF usage = "sorted" THEN "sorted" ELSE "unsorted_use")
    ELSE IF sorts THEN "sorted"
    ELSE usage

\* What one call does to the array it is handed: the array when the call has
\* ended, the failure if any, and the score.
margin_confidence_run(p, sorted) ==
    LET q == IF sorted THEN p ELSE sort_desc(p)
        e == two_item_exc(q)
    IN  [array |-> q, exc |-> e, val |-> IF e = "" THEN margin_conf(q) ELSE NaN]

ratio_confidence_run(p, sorted) ==
    LET q == IF sorted THEN p ELSE sort_desc(p)
        e == two_item_exc(q)
    IN  [array |-> q, exc |-> e, val |-> IF e = "" THEN ratio_conf(q) ELSE NaN]

least_confidence_run(p, sorted) ==
    LET e == least_confidence_exc(p, sorted)
    IN  [array |-> p, exc |-> e,
         val |-> IF e = ""
                 THEN normalized_least_conf(most_confident(p, sorted), Len(p))
                 ELSE NaN]

margin_confidence(sorted) ==
    LET r == margin_confidence_run(prob_dist, sorted)
    IN  /\ prob_dist' = r.array
        /\ ret' = [NoCall EXCEPT !.fn = "margin_confidence", !.sorted = sorted,
                                 !.arg = prob_dist, !.exc = r.exc, !.val = r.val]
        /\ usage' = Used(sorted, TRUE)
        /\ UNCHANGED <<prediction, orig>>

ratio_confidence(sorted) ==
    LET r == ratio_confidence_run(prob_dist, sorted)
    IN  /\ prob_dist' = r.array
        /\ ret' = [NoCall EXCEPT !.fn = "ratio_confidence", !.sorted = sorted,
                                 !.arg = prob_dist, !.exc = r.exc, !.val = r.val]
        /\ usage' = Used(sorted, TRUE)
        /\ UNCHANGED <<prediction, orig>>

least_confidence(sorted) ==
    LET r == least_confidence_run(prob_dist, sorted)
    IN  /\ prob_dist' = r.array
        /\ ret' = [NoCall EXCEPT !.fn = "least_confidence", !.sorted = sorted,
                                 !.arg = prob_dist, !.exc = r.exc, !.val = r.val]
        /\ usage' = Used(sorted, FALSE)
        /\ UNCHANGED <<prediction, orig>>

entropy_score ==
    /\ ret' = [NoCall EXCEPT !.fn = "entropy_score", !.arg = prob_dist,
                             !.ent = normalized_entropy(prob_dist)]
    /\ UNCHANGED <<prob_dist, prediction, orig, usage>>

softmax ==
    \E base \in Bases :
        /\ ret' = [NoCall EXCEPT !.fn = "softmax", !.arg = prediction, !.base = base,
                                 !.dist = softmax_dist(prediction, base)]
        /\ UNCHANGED <<prob_dist, prediction, orig, usage>>

Next ==
    \/ \E sorted \in BOOLEAN : margin_confidence(sorted)
    \/ \E sorted \in BOOLEAN : ratio_confidence(sorted)
    \/ \E sorted \in BOOLEAN : least_confidence(sorted)
    \/ entropy_score
    \/ softmax

Spec == Init /\ [][Next]_vars

----------------------------------------------------------------------------
\* Vocabulary of the properties.

Scorers == {"margin_confidence", "ratio_confidence", "least_confidence", "entropy_score"}
Sorters == {"margin_confidence", "ratio_confidence"}

InUnit(x) == RLe(Zero, x) /\ RLe(x, One)

\* a probability distribution as the library expects it
IsValidDist(p) ==
    /\ Len(p) >= 2
    /\ \A i \in 1..Len(p) : InUnit(p[i])
    /\ RSum(p) = One

AllPositive(p) == \A i \in 1..Len(p) : RLt(Zero, p[i])

IsUniform(p) == \A i \in 1..Len(p) : p[i] = <<1, Len(p)>>

IsOneHot(p) ==
    \E i \in 1..Len(p) : p[i] = One /\ \A j \in 1..Len(p) \ {i} : p[j] = Zero

IsDescending(p) == \A i \in 1..(Len(p) - 1) : RLe(p[i + 1], p[i])

Bijections(n) == {f \in [1..n -> 1..n] : \A i, j \in 1..n : f[i] = f[j] => i = j}

Perms(p) == {[i \in 1..Len(p) |-> p[f[i]]] : f \in Bijections(Len(p))}

IsPermutation(p, q) == Len(p) = Len(q) /\ p \in Perms(q)

\* the largest entry, and the largest of the entries at the other indices
Largest(p) == p[CHOOSE i \in 1..Len(p) : \A j \in 1..Len(p) : RLe(p[j], p[i])]
SecondLargest(p) ==
    LET top == CHOOSE i \in 1..Len(p) : \A j \in 1..Len(p) : RLe(p[j], p[i])
        rest == 1..Len(p) \ {top}
    IN  p[CHOOSE i \in rest : \A j \in rest : RLe(p[j], p[i])]

EntIsZero(e) == e.kind = "zero" \/ (e.kind = "log" /\ e.arg = One)

\* a call of fn on a valid distribution has returned
Returned(fn) == ret.fn = fn /\ IsValidDist(ret.arg) /\ ret.exc = ""

----------------------------------------------------------------------------
\* C1: no scoring function changes its argument: after a call of
\* margin_confidence or ratio_confidence with sorted=False, of least_confidence,
\* of entropy_score or of softmax on an array of length >= 2, the caller's array
\* holds the same values at the same indices as before the call.
C1_ArgumentUnchanged ==
    /\ (ret.fn \in Scorers /\ Len(ret.arg) >= 2 /\ (ret.fn \in Sorters => ~ret.sorted))
           => prob_dist = ret.arg
    /\ (ret.fn = "softmax" /\ Len(ret.arg) >= 2) => prediction = ret.arg

C3_OneHotEntropyZero ==
    (ret.fn = "entropy_score" /\ Len(ret.arg) >= 2 /\ IsOneHot(ret.arg))
        => EntIsZero(ret.ent)

C5_MarginHalfOpen ==
    Returned("margin_confidence") /\ ~ret.sorted =>
        /\ ret.val = RSub(One, RSub(Largest(ret.arg), SecondLargest(ret.arg)))
        /\ RLt(Zero, ret.val) /\ RLe(ret.val, One)
        /\ Largest(ret.arg) = SecondLargest(ret.arg) => ret.val = One

\* C5 amended: margin_confidence(p, sorted=False) of a valid distribution
\* returns 1 - (largest - second largest), lies in the closed interval [0,1],
\* is 0 exactly when the largest entry is 1 (a one-hot distribution), and is 1
\* when the two largest entries are equal.
C5_MarginClosed ==
    (ret.fn = "margin_confidence" /\ ~ret.sorted /\ IsValidDist(ret.arg)) =>
        /\ ret.exc = ""
        /\ ret.val = RSub(One, RSub(Largest(ret.arg), SecondLargest(ret.arg)))
        /\ InUnit(ret.val)
        /\ ret.val = Zero <=> Largest(ret.arg) = One
        /\ Largest(ret.arg) = SecondLargest(ret.arg) => ret.val = One

\* C5's case: a one-hot distribution, not sorted, has been scored 0.
C5_Witness ==
    /\ ret.fn = "margin_confidence" /\ ~ret.sorted
    /\ ret.arg = <<Zero, Zero, One>>
    /\ ret.val = Zero

\* C6 as stated: ratio_confidence(p, sorted=False) of a valid distribution is
\* (second largest) / (largest), lies in (0,1] (never 0), is 1 when the two
\* largest entries are equal, and its divisor is never 0.
C6_RatioHalfOpen ==
    Returned("ratio_confidence") /\ ~ret.sorted =>
        /\ ret.val = RDiv(SecondLargest(ret.arg), Largest(ret.arg))
        /\ RLt(Zero, ret.val) /\ RLe(ret.val, One)
        /\ Largest(ret.arg) = SecondLargest(ret.arg) => ret.val = One
        /\ prob_dist[1] # Zero

\* C6 amended: ratio_confidence(p, sorted=False) of a valid distribution
\* returns (second largest) / (largest), lies in the closed interval [0,1], is
\* 0 exactly when the second largest entry is 0 (a one-hot distribution), is 1
\* when the two largest entries are equal, and its divisor, the entry at index
\* 0 of the sorted array, is never 0.
C6_RatioClosed ==
    (ret.fn = "ratio_confidence" /\ ~ret.sorted /\ IsValidDist(ret.arg)) =>
        /\ ret.exc = ""
        /\ IsFinite(ret.val)
        /\ ret.val[1] * SecondLargest(ret.arg)[2] * Largest(ret.arg)[1]
               = ret.val[2] * SecondLargest(ret.arg)[1] * Largest(ret.arg)[2]
        /\ InUnit(ret.val)
        /\ ret.val = Zero <=> SecondLargest(ret.arg) = Zero
        /\ Largest(ret.arg) = SecondLargest(ret.arg) => ret.val = One
        /\ prob_dist[1] = Largest(ret.arg) /\ prob_dist[1] # Zero

\* C6's case: a one-hot distribution, not sorted, has been scored 0.
C6_Witness ==
    /\ ret.fn = "ratio_confidence" /\ ~ret.sorted
    /\ ret.arg = <<Zero, One, Zero>>
    /\ ret.val = Zero

\* C7: softmax of n >= 2 logits, for any base > 0, returns n numbers, each
\* strictly between 0 and 1, that sum to 1, the entry at index i standing for
\* the logit at index i (entries are to each other as base^logit); equal logits
\* give the uniform distribution.
C7_Softmax ==
    (ret.fn = "softmax" /\ Len(ret.arg) >= 2) =>
        LET n == Len(ret.arg)
        IN  /\ Len(ret.dist) = n
            /\ \A i \in 1..n : RLt(Zero, ret.dist[i]) /\ RLt(ret.dist[i], One)
            /\ RSum(ret.dist) = One
            /\ \A i, j \in 1..n :
                   RMul(ret.dist[i], RPow(ret.base, ret.arg[j]))
                       = RMul(ret.dist[j], RPow(ret.base, ret.arg[i]))
            /\ (\A i \in 1..n : ret.arg[i] = ret.arg[1]) => IsUniform(ret.dist)

\* C7's case: three unequal logits of both signs under base 2.
C7_Witness ==
    /\ ret.fn = "softmax"
    /\ ret.arg = <<-1, 0, 1>> /\ ret.base = <<2, 1>>
    /\ ret.dist = <<<<1, 7>>, <<2, 7>>, <<4, 7>>>>

\* C8 as stated: on an array of length 0 or 1, with either value of the flag,
\* margin_confidence, ratio_confidence and least_confidence each end in an
\* index-out-of-range failure.
C8_ShortIndexError ==
    (ret.fn \in {"margin_confidence", "ratio_confidence", "least_confidence"}
         /\ Len(ret.arg) < 2)
        => ret.exc = "IndexError"

\* C8 amended: on an array of length 0 or 1, with either value of the flag,
\* margin_confidence, ratio_confidence and least_confidence each end in a
\* failure and return no score.  The failure is index-out-of-range for
\* margin_confidence and ratio_confidence; for least_confidence it is
\* index-out-of-range only at length 0 with sorted=True, a ValueError (the
\* maximum of an empty array) at length 0 with sorted=False, and a
\* ZeroDivisionError (n / (n - 1)) at length 1.
C8_ShortFails ==
    (ret.fn \in {"margin_confidence", "ratio_confidence", "least_confidence"}
         /\ Len(ret.arg) < 2) =>
        /\ ret.exc # "" /\ IsNaN(ret.val)
        /\ ret.fn \in Sorters => ret.exc = "IndexError"
        /\ ret.fn = "least_confidence" =>
               ret.exc = IF Len(ret.arg) = 1 THEN "ZeroDivisionError"
                         ELSE IF ret.sorted THEN "IndexError"
                         ELSE "ValueError"

\* C8's case: least_confidence has failed on an array of one entry.
C8_Witness ==
    /\ ret.fn = "least_confidence" /\ ret.arg = <<One>>
    /\ ret.exc = "ZeroDivisionError"

\* C9: when margin_confidence or ratio_confidence returns, the caller's array
\* is, for sorted=False, a permutation of what it was, in non-increasing order,
\* and unchanged if it already was in that order; for sorted=True it is
\* unchanged; and a second sorted=False call right after a first leaves the
\* array as the first left it.
C9_SortedInPlace ==
    /\ [](ret.fn \in Sorters /\ ret.exc = "" =>
            /\ ~ret.sorted => /\ IsPermutation(prob_dist, ret.arg)
                              /\ IsDescending(prob_dist)
                              /\ IsDescending(ret.arg) => prob_dist = ret.arg
            /\ ret.sorted => prob_dist = ret.arg)
    /\ [][(/\ ret.fn \in Sorters /\ ~ret.sorted /\ ret.exc = ""
           /\ ret'.fn \in Sorters /\ ~ret'.sorted)
              => prob_dist' = prob_dist]_vars

\* C9's case: a sorted=False call has reordered an array of four entries that
\* was in no order.
C9_Witness ==
    /\ ret.fn = "ratio_confidence" /\ ~ret.sorted /\ ret.exc = ""
    /\ ret.arg = <<<<1, 6>>, <<1, 2>>, <<1, 6>>, <<1, 6>>>>
    /\ prob_dist = <<<<1, 2>>, <<1, 6>>, <<1, 6>>, <<1, 6>>>>

====
